---- MODULE Spec2Model ----
(***************************************************************************)
(* TodoMasterApp: the urgency scorer and the filter/sort engine            *)
(* (utils/sortAlgorithm.ts), the task store (store/tasksSlice.ts), the     *)
(* task persistence service (services/taskService.ts) and the list the    *)
(* home screen derives from them (screens/tasks/HomeScreen.tsx).           *)
(*                                                                         *)
(* Representation.                                                         *)
(*  - An instant (an ISO string, a Date) is an integer count of ticks;     *)
(*    TicksPerHour ticks make one hour, so sub-hour differences exist and  *)
(*    differenceInHours truncates them as date-fns does.                   *)
(*  - A score is an integer count of 1/ScoreScale (toFixed(4)): -1 is      *)
(*    -ScoreScale, 10 is 10 * ScoreScale.                                  *)
(*  - Math.exp(-0.007 * h) is read from ExpTable, its value at each whole  *)
(*    number of hours h (hoursLeft is always a whole number), in units of  *)
(*    1/DecayScale. The weighted sum is then exact rational arithmetic;    *)
(*    IEEE doubles can differ from it by one unit of 1/ScoreScale when the *)
(*    sum falls within rounding error of a half unit.                      *)
(*  - A free-text string (title, description, tag, search query) is a      *)
(*    sequence of one-character strings over Alphabet.                     *)
(*  - An optional value (sortScore?: number, tag: string | null) is the    *)
(*    empty sequence when absent and a one-element sequence when present.  *)
(*  - A timestamp that does not parse is the instant InvalidDate, and NaN   *)
(*    is an integer below every number the scorer can otherwise produce.   *)
(***************************************************************************)
EXTENDS Integers, Sequences, FiniteSets, TLC

VARIABLES
    now,          \* the wall clock that `new Date()` reads
    collation,    \* the collation String.prototype.localeCompare uses
    scTask,       \* scorer harness: the task handed to calculateSmartScore
    scCalls,      \* scorer harness: the calls made so far, [at, score]
    egTasks,      \* engine harness: the caller's array passed as `tasks`
    egFilter,     \* engine harness: the `filter` argument
    egOrder,      \* engine harness: the `order` argument
    egResult,     \* engine harness: the returned array, when returned
    storage,      \* AsyncStorage: the JSON array under STORAGE_KEYS.TASKS
    tasks,        \* state.tasks
    loading,      \* state.loading
    error,        \* state.error
    filter,       \* state.filter
    sortOrder,    \* state.sortOrder
    nextId,       \* the next id uuid.v4() hands out
    users,        \* AsyncStorage: the JSON array under STORAGE_KEYS.USERS
    currentUserId,\* AsyncStorage: the value under STORAGE_KEYS.CURRENT_USER_ID
    auth,         \* state.auth
    calls         \* the task thunks in flight, in the order of their dispatch

timeVars   == <<now, collation>>
scoreVars  == <<scTask, scCalls>>
engineVars == <<egTasks, egFilter, egOrder, egResult>>
storeVars  == <<storage, tasks, loading, error, filter, sortOrder, nextId>>
authVars   == <<users, currentUserId, auth>>
asyncVars  == <<users, currentUserId, auth, calls>>
vars == <<now, collation, scTask, scCalls, egTasks, egFilter, egOrder, egResult,
          storage, tasks, loading, error, filter, sortOrder, nextId,
          users, currentUserId, auth, calls>>

(***************************************************************************)
(* Bounds of the model                                                     *)
(***************************************************************************)
TicksPerHour == 2
MaxCalls == 2
MaxTasks == 3
MaxFilterTasks == 1
MaxStored == 2
MaxIds == 3
MaxInflight == 2
MaxFlightTasks == 2

(***************************************************************************)
(* Units                                                                   *)
(***************************************************************************)
ScoreScale == 10000
DecayScale == 100000000

Hours(n) == n * TicksPerHour

Absent == <<>>
Some(v) == <<v>>
IsPresent(o) == o # <<>>
OrElse(o, d) == IF o = <<>> THEN d ELSE o[1]

Min(a, b) == IF a <= b THEN a ELSE b

(***************************************************************************)
(* utils/sortAlgorithm.ts: the urgency scorer                              *)
(***************************************************************************)
PRIORITY_WEIGHTS == [critical |-> 4, high |-> 3, medium |-> 2, low |-> 1]

Priorities == {"low", "medium", "high", "critical"}

\* new Date(s) for a string s that is not a date: the Invalid Date, whose
\* getTime() is NaN. No instant of the model is this far back.
InvalidDate == -1000000

\* The number NaN: no hour count, component or score of the model is this low.
NaN == -2000000

\* date-fns differenceInHours(dateLeft, dateRight): the difference in
\* milliseconds over the milliseconds of an hour, truncated toward zero; NaN
\* when either date is invalid.
differenceInHours(dateLeft, dateRight) ==
    IF dateLeft = InvalidDate \/ dateRight = InvalidDate THEN NaN
    ELSE LET diff == dateLeft - dateRight
         IN  IF diff >= 0 THEN diff \div TicksPerHour
                          ELSE -((-diff) \div TicksPerHour)

\* Math.exp(-0.007 * h) for h = 1 .. 1600, in units of 1/DecayScale.
ExpTable == <<
    99302444, 98609754, 97921896, 97238837, 96560542, 95886978, 95218113, 94553914, 93894347, 93239382,
    92588985, 91943126, 91301771, 90664890, 90032452, 89404426, 88780780, 88161485, 87546509, 86935824,
    86329398, 85727202, 85129207, 84535383, 83945702, 83360134, 82778651, 82201223, 81627824, 81058425,
    80492997, 79931513, 79373947, 78820269, 78270454, 77724474, 77182302, 76643913, 76109279, 75578374,
    75051173, 74527649, 74007777, 73491532, 72978887, 72469819, 71964302, 71462311, 70963821, 70468809,
    69977250, 69489119, 69004394, 68523050, 68045064, 67570411, 67099070, 66631017, 66166228, 65704682,
    65246355, 64791226, 64339271, 63890468, 63444797, 63002234, 62562758, 62126348, 61692982, 61262639,
    60835298, 60410938, 59989538, 59571078, 59155536, 58742894, 58333129, 57926223, 57522155, 57120906,
    56722456, 56326786, 55933875, 55543705, 55156257, 54771511, 54389449, 54010052, 53633302, 53259180,
    52887668, 52518747, 52152399, 51788607, 51427353, 51068618, 50712386, 50358639, 50007360, 49658530,
    49312134, 48968155, 48626575, 48287377, 47950546, 47616064, 47283916, 46954084, 46626553, 46301307,
    45978329, 45657605, 45339118, 45022852, 44708793, 44396924, 44087231, 43779698, 43474310, 43171052,
    42869910, 42570869, 42273913, 41979029, 41686202, 41395417, 41106661, 40819920, 40535178, 40252422,
    39971639, 39692815, 39415935, 39140987, 38867957, 38596831, 38327597, 38060241, 37794749, 37531110,
    37269309, 37009335, 36751175, 36494815, 36240243, 35987447, 35736415, 35487133, 35239591, 34993775,
    34749674, 34507276, 34266568, 34027540, 33790179, 33554473, 33320412, 33087984, 32857177, 32627979,
    32400381, 32174370, 31949936, 31727068, 31505754, 31285984, 31067746, 30851032, 30635828, 30422126,
    30209915, 29999184, 29789923, 29582122, 29375770, 29170858, 28967375, 28765311, 28564657, 28365403,
    28167538, 27971054, 27775940, 27582188, 27389786, 27198727, 27009001, 26820598, 26633510, 26447726,
    26263239, 26080038, 25898115, 25717461, 25538068, 25359925, 25183026, 25007360, 24832920, 24659696,
    24487681, 24316866, 24147242, 23978802, 23811536, 23645438, 23480498, 23316708, 23154061, 22992549,
    22832163, 22672896, 22514740, 22357687, 22201729, 22046860, 21893071, 21740354, 21588703, 21438110,
    21288567, 21140068, 20992604, 20846169, 20700755, 20556356, 20412964, 20270572, 20129174, 19988761,
    19849329, 19710869, 19573374, 19436839, 19301256, 19166619, 19032921, 18900156, 18768317, 18637398,
    18507391, 18378292, 18250093, 18122789, 17996372, 17870837, 17746178, 17622389, 17499463, 17377394,
    17256177, 17135806, 17016274, 16897576, 16779706, 16662658, 16546427, 16431006, 16316391, 16202575,
    16089553, 15977320, 15865869, 15755196, 15645294, 15536160, 15427786, 15320169, 15213302, 15107181,
    15001800, 14897154, 14793238, 14690047, 14587576, 14485819, 14384773, 14284431, 14184789, 14085842,
    13987585, 13890014, 13793124, 13696909, 13601365, 13506488, 13412273, 13318715, 13225810, 13133552,
    13041938, 12950963, 12860623, 12770913, 12681829, 12593366, 12505520, 12418288, 12331663, 12245643,
    12160223, 12075398, 11991166, 11907521, 11824459, 11741977, 11660070, 11578735, 11497966, 11417762,
    11338116, 11259027, 11180489, 11102499, 11025053, 10948147, 10871777, 10795941, 10720633, 10645850,
    10571590, 10497847, 10424619, 10351901, 10279691, 10207984, 10136778, 10066068, 9995852, 9926125,
    9856885, 9788128, 9719850, 9652049, 9584720, 9517861, 9451469, 9385540, 9320070, 9255058,
    9190499, 9126390, 9062728, 8999510, 8936734, 8874395, 8812491, 8751019, 8689976, 8629359,
    8569164, 8509389, 8450032, 8391088, 8332555, 8274431, 8216712, 8159396, 8102480, 8045961,
    7989836, 7934102, 7878757, 7823799, 7769223, 7715029, 7661212, 7607771, 7554702, 7502004,
    7449673, 7397708, 7346105, 7294861, 7243976, 7193445, 7143267, 7093438, 7043958, 6994822,
    6946029, 6897577, 6849463, 6801684, 6754238, 6707124, 6660338, 6613878, 6567743, 6521929,
    6476435, 6431258, 6386397, 6341848, 6297610, 6253681, 6210058, 6166739, 6123723, 6081006,
    6038588, 5996465, 5954637, 5913100, 5871853, 5830893, 5790219, 5749829, 5709721, 5669893,
    5630342, 5591067, 5552066, 5513338, 5474879, 5436689, 5398765, 5361105, 5323709, 5286573,
    5249696, 5213077, 5176712, 5140602, 5104743, 5069135, 5033775, 4998662, 4963793, 4929168,
    4894784, 4860640, 4826735, 4793066, 4759631, 4726430, 4693461, 4660721, 4628210, 4595926,
    4563867, 4532031, 4500418, 4469025, 4437851, 4406894, 4376154, 4345628, 4315314, 4285213,
    4255321, 4225638, 4196162, 4166891, 4137825, 4108961, 4080299, 4051836, 4023572, 3995506,
    3967635, 3939958, 3912475, 3885183, 3858082, 3831170, 3804445, 3777907, 3751554, 3725385,
    3699398, 3673593, 3647968, 3622521, 3597252, 3572159, 3547241, 3522497, 3497926, 3473526,
    3449296, 3425235, 3401342, 3377616, 3354055, 3330659, 3307426, 3284355, 3261444, 3238694,
    3216102, 3193668, 3171391, 3149268, 3127301, 3105486, 3083823, 3062312, 3040951, 3019738,
    2998674, 2977757, 2956985, 2936358, 2915876, 2895536, 2875338, 2855281, 2835364, 2815585,
    2795945, 2776442, 2757075, 2737842, 2718744, 2699780, 2680947, 2662246, 2643676, 2625234,
    2606922, 2588737, 2570679, 2552747, 2534941, 2517258, 2499699, 2482262, 2464947, 2447752,
    2430678, 2413723, 2396885, 2380166, 2363563, 2347076, 2330704, 2314446, 2298301, 2282269,
    2266349, 2250540, 2234841, 2219252, 2203771, 2188399, 2173134, 2157975, 2142922, 2127974,
    2113130, 2098390, 2083752, 2069217, 2054783, 2040450, 2026216, 2012082, 1998047, 1984109,
    1970269, 1956525, 1942878, 1929325, 1915867, 1902503, 1889232, 1876053, 1862967, 1849971,
    1837067, 1824252, 1811527, 1798891, 1786342, 1773882, 1761508, 1749220, 1737019, 1724902,
    1712870, 1700922, 1689057, 1677275, 1665575, 1653956, 1642419, 1630962, 1619585, 1608288,
    1597069, 1585929, 1574866, 1563880, 1552971, 1542139, 1531381, 1520699, 1510091, 1499558,
    1489097, 1478710, 1468395, 1458152, 1447981, 1437881, 1427851, 1417890, 1408000, 1398178,
    1388425, 1378740, 1369123, 1359572, 1350089, 1340671, 1331319, 1322032, 1312810, 1303653,
    1294559, 1285529, 1276562, 1267657, 1258814, 1250033, 1241314, 1232655, 1224056, 1215518,
    1207039, 1198619, 1190258, 1181955, 1173711, 1165523, 1157393, 1149320, 1141303, 1133341,
    1125436, 1117585, 1109789, 1102048, 1094361, 1086727, 1079146, 1071619, 1064143, 1056720,
    1049349, 1042029, 1034761, 1027543, 1020375, 1013257, 1006189, 999171, 992201, 985280,
    978407, 971582, 964804, 958074, 951391, 944755, 938165, 931620, 925122, 918669,
    912260, 905897, 899578, 893303, 887071, 880884, 874739, 868637, 862578, 856561,
    850586, 844653, 838761, 832910, 827100, 821330, 815601, 809912, 804262, 798652,
    793081, 787549, 782055, 776600, 771183, 765803, 760461, 755157, 749889, 744658,
    739464, 734306, 729184, 724097, 719046, 714030, 709050, 704104, 699192, 694315,
    689472, 684662, 679886, 675144, 670434, 665757, 661113, 656502, 651922, 647375,
    642859, 638375, 633922, 629500, 625109, 620748, 616418, 612118, 607848, 603608,
    599398, 595217, 591065, 586942, 582847, 578782, 574744, 570735, 566754, 562801,
    558875, 554976, 551105, 547261, 543443, 539653, 535888, 532150, 528438, 524752,
    521091, 517457, 513847, 510263, 506703, 503169, 499659, 496173, 492712, 489275,
    485862, 482473, 479108, 475766, 472447, 469151, 465879, 462629, 459402, 456197,
    453015, 449855, 446717, 443601, 440507, 437434, 434382, 431352, 428344, 425356,
    422388, 419442, 416516, 413611, 410726, 407861, 405016, 402190, 399385, 396599,
    393832, 391085, 388357, 385648, 382958, 380287, 377634, 375000, 372384, 369786,
    367207, 364645, 362102, 359576, 357068, 354577, 352104, 349647, 347209, 344787,
    342381, 339993, 337622, 335266, 332928, 330605, 328299, 326009, 323735, 321477,
    319234, 317008, 314796, 312600, 310420, 308254, 306104, 303969, 301849, 299743,
    297652, 295576, 293514, 291467, 289433, 287415, 285410, 283419, 281442, 279479,
    277529, 275593, 273671, 271762, 269866, 267984, 266114, 264258, 262415, 260584,
    258766, 256961, 255169, 253389, 251621, 249866, 248123, 246392, 244674, 242967,
    241272, 239589, 237918, 236258, 234610, 232974, 231349, 229735, 228132, 226541,
    224961, 223391, 221833, 220286, 218749, 217223, 215708, 214203, 212709, 211225,
    209752, 208289, 206836, 205393, 203960, 202538, 201125, 199722, 198329, 196945,
    195571, 194207, 192852, 191507, 190171, 188845, 187527, 186219, 184920, 183630,
    182350, 181078, 179814, 178560, 177315, 176078, 174849, 173630, 172419, 171216,
    170022, 168836, 167658, 166488, 165327, 164174, 163029, 161891, 160762, 159641,
    158527, 157421, 156323, 155233, 154150, 153075, 152007, 150946, 149894, 148848,
    147810, 146779, 145755, 144738, 143728, 142726, 141730, 140742, 139760, 138785,
    137817, 136855, 135901, 134953, 134011, 133077, 132148, 131227, 130311, 129402,
    128500, 127603, 126713, 125829, 124951, 124080, 123214, 122355, 121501, 120654,
    119812, 118976, 118147, 117322, 116504, 115691, 114884, 114083, 113287, 112497,
    111712, 110933, 110159, 109391, 108628, 107870, 107117, 106370, 105628, 104891,
    104160, 103433, 102712, 101995, 101284, 100577, 99876, 99179, 98487, 97800,
    97118, 96440, 95768, 95100, 94436, 93778, 93123, 92474, 91829, 91188,
    90552, 89920, 89293, 88670, 88052, 87438, 86828, 86222, 85621, 85023,
    84430, 83841, 83256, 82676, 82099, 81526, 80958, 80393, 79832, 79275,
    78722, 78173, 77628, 77086, 76549, 76015, 75484, 74958, 74435, 73916,
    73400, 72888, 72380, 71875, 71373, 70876, 70381, 69890, 69403, 68919,
    68438, 67960, 67486, 67016, 66548, 66084, 65623, 65165, 64711, 64259,
    63811, 63366, 62924, 62485, 62049, 61616, 61186, 60760, 60336, 59915,
    59497, 59082, 58670, 58261, 57854, 57451, 57050, 56652, 56257, 55864,
    55475, 55088, 54703, 54322, 53943, 53567, 53193, 52822, 52453, 52088,
    51724, 51363, 51005, 50649, 50296, 49945, 49597, 49251, 48907, 48566,
    48227, 47891, 47557, 47225, 46896, 46569, 46244, 45921, 45601, 45283,
    44967, 44653, 44342, 44032, 43725, 43420, 43117, 42817, 42518, 42221,
    41927, 41634, 41344, 41056, 40769, 40485, 40202, 39922, 39643, 39367,
    39092, 38820, 38549, 38280, 38013, 37748, 37484, 37223, 36963, 36705,
    36449, 36195, 35943, 35692, 35443, 35196, 34950, 34706, 34464, 34224,
    33985, 33748, 33513, 33279, 33047, 32816, 32587, 32360, 32134, 31910,
    31688, 31467, 31247, 31029, 30813, 30598, 30384, 30172, 29962, 29753,
    29545, 29339, 29135, 28931, 28730, 28529, 28330, 28132, 27936, 27741,
    27548, 27356, 27165, 26975, 26787, 26600, 26415, 26231, 26048, 25866,
    25685, 25506, 25328, 25152, 24976, 24802, 24629, 24457, 24287, 24117,
    23949, 23782, 23616, 23451, 23288, 23125, 22964, 22804, 22645, 22487,
    22330, 22174, 22019, 21866, 21713, 21562, 21411, 21262, 21114, 20966,
    20820, 20675, 20531, 20388, 20245, 20104, 19964, 19825, 19686, 19549,
    19413, 19277, 19143, 19009, 18877, 18745, 18614, 18484, 18355, 18227,
    18100, 17974, 17849, 17724, 17600, 17478, 17356, 17235, 17114, 16995,
    16877, 16759, 16642, 16526, 16411, 16296, 16182, 16070, 15957, 15846,
    15736, 15626, 15517, 15409, 15301, 15194, 15088, 14983, 14879, 14775,
    14672, 14569, 14468, 14367, 14267, 14167, 14068, 13970, 13873, 13776,
    13680, 13584, 13490, 13396, 13302, 13209, 13117, 13026, 12935, 12845,
    12755, 12666, 12578, 12490, 12403, 12316, 12230, 12145, 12060, 11976,
    11893, 11810, 11727, 11646, 11564, 11484, 11404, 11324, 11245, 11167,
    11089, 11011, 10935, 10858, 10783, 10707, 10633, 10558, 10485, 10412,
    10339, 10267, 10195, 10124, 10054, 9983, 9914, 9845, 9776, 9708,
    9640, 9573, 9506, 9440, 9374, 9308, 9244, 9179, 9115, 9051,
    8988, 8926, 8863, 8802, 8740, 8679, 8619, 8559, 8499, 8440,
    8381, 8322, 8264, 8206, 8149, 8092, 8036, 7980, 7924, 7869,
    7814, 7760, 7705, 7652, 7598, 7545, 7493, 7440, 7389, 7337,
    7286, 7235, 7184, 7134, 7085, 7035, 6986, 6937, 6889, 6841,
    6793, 6746, 6699, 6652, 6606, 6560, 6514, 6468, 6423, 6378,
    6334, 6290, 6246, 6202, 6159, 6116, 6073, 6031, 5989, 5947,
    5906, 5865, 5824, 5783, 5743, 5703, 5663, 5623, 5584, 5545,
    5506, 5468, 5430, 5392, 5354, 5317, 5280, 5243, 5207, 5170,
    5134, 5098, 5063, 5028, 4992, 4958, 4923, 4889, 4855, 4821,
    4787, 4754, 4721, 4688, 4655, 4622, 4590, 4558, 4526, 4495,
    4463, 4432, 4401, 4371, 4340, 4310, 4280, 4250, 4220, 4191,
    4162, 4133, 4104, 4075, 4047, 4019, 3991, 3963, 3935, 3908,
    3880, 3853, 3826, 3800, 3773, 3747, 3721, 3695, 3669, 3643,
    3618, 3593, 3568, 3543, 3518, 3494, 3469, 3445, 3421, 3397,
    3373, 3350, 3327, 3303, 3280, 3257, 3235, 3212, 3190, 3167,
    3145, 3123, 3102, 3080, 3059, 3037, 3016, 2995, 2974, 2953,
    2933, 2912, 2892, 2872, 2852, 2832, 2812, 2792, 2773, 2754,
    2734, 2715, 2696, 2678, 2659, 2640, 2622, 2604, 2586, 2567,
    2550, 2532, 2514, 2497, 2479, 2462, 2445, 2428, 2411, 2394,
    2377, 2361, 2344, 2328, 2312, 2295, 2279, 2264, 2248, 2232,
    2216, 2201, 2186, 2170, 2155, 2140, 2125, 2111, 2096, 2081,
    2067, 2052, 2038, 2024, 2010, 1996, 1982, 1968, 1954, 1940,
    1927, 1913, 1900, 1887, 1874, 1861, 1848, 1835, 1822, 1809,
    1797, 1784, 1772, 1759, 1747, 1735, 1723, 1711, 1699, 1687,
    1675, 1664, 1652, 1640, 1629, 1618, 1606, 1595, 1584, 1573,
    1562, 1551, 1540, 1529, 1519, 1508, 1498, 1487, 1477, 1467,
    1456, 1446, 1436, 1426, 1416, 1406, 1396, 1387, 1377, 1367>>

\* Math.exp(-k * hoursLeft) with k = 0.007, for a whole number of hours.
ExpDecay(hoursLeft) == ExpTable[hoursLeft]

\* The same curve read at the distance from the deadline, on either side.
deadlineUrgency_abs(deadlineISO, clock) ==
    LET hoursLeft == differenceInHours(deadlineISO, clock)
    IN  IF hoursLeft = 0 THEN DecayScale
        ELSE ExpDecay(IF hoursLeft < 0 THEN -hoursLeft ELSE hoursLeft)

\* The curve turned over: urgency growing with the hours left.
deadlineUrgency_inverted(deadlineISO, clock) ==
    LET hoursLeft == differenceInHours(deadlineISO, clock)
    IN  IF hoursLeft <= 0 THEN DecayScale
        ELSE DecayScale - ExpDecay(hoursLeft)

\* deadlineUrgency(deadlineISO), reading the clock: in units of 1/DecayScale.
\* `NaN <= 0` is false and Math.exp(NaN) is NaN.
deadlineUrgency(deadlineISO, clock) ==
    LET hoursLeft == differenceInHours(deadlineISO, clock)
    IN  IF hoursLeft = NaN THEN NaN
        ELSE IF hoursLeft <= 0 THEN DecayScale
        ELSE ExpDecay(hoursLeft)

maxAgeHours == 720

\* The age divided by a cap of 30 (days) instead of 30 * 24 (hours).
ageBoost_capInDays(createdAtISO, clock) ==
    LET ageHours == differenceInHours(clock, createdAtISO)
    IN  Min(ageHours * 24, maxAgeHours)

\* ageBoost(createdAtISO), reading the clock: Math.min(ageHours / maxAgeHours,
\* 1.0), as the numerator of a fraction over maxAgeHours. Math.min(NaN, 1.0)
\* is NaN.
ageBoost(createdAtISO, clock) ==
    LET ageHours == differenceInHours(clock, createdAtISO)
    IN  IF ageHours = NaN THEN NaN
        ELSE Min(ageHours, maxAgeHours)

\* Number.prototype.toFixed: the nearest integer to n / d, a half rounding
\* away from zero.
RoundDiv(n, d) ==
    LET m == IF n >= 0 THEN n ELSE -n
        q == IF 2 * (m % d) >= d THEN (m \div d) + 1 ELSE m \div d
    IN  IF n >= 0 THEN q ELSE -q

\* The weighted sum of a task that is not completed, scaled and rounded:
\* parseFloat((raw * 10).toFixed(4)) with
\*   raw = priorityNorm * 0.40 + dlUrgency * 0.40 + age * 0.20,
\* so raw * 10 = w + 4 * dl / DecayScale + 2 * a / maxAgeHours
\* and, in units of 1/ScoreScale,
\*   ScoreScale * w + (9 * dl + 625000 * a) / 22500
\* (40000 / DecayScale = 9 / 22500, 20000 / 720 = 625000 / 22500).
\* A NaN component makes raw NaN; NaN.toFixed(4) is "NaN", parseFloat of
\* which is NaN.
WeightedScore(task, clock) ==
    LET w  == PRIORITY_WEIGHTS[task.priority]
        dl == deadlineUrgency(task.deadline, clock)
        a  == ageBoost(task.createdAt, clock)
    IN  IF dl = NaN \/ a = NaN THEN NaN
        ELSE ScoreScale * w + RoundDiv(9 * dl + 625000 * a, 22500)

\* calculateSmartScore without the completed sentinel.
calculateSmartScore_noSentinel(task, clock) == WeightedScore(task, clock)

\* calculateSmartScore(task), reading the clock. deadlineUrgency and ageBoost
\* each read new Date() within the one synchronous call; the two readings are
\* taken to be the same instant.
calculateSmartScore(task, clock) ==
    IF task.completed THEN -ScoreScale
    ELSE WeightedScore(task, clock)

\* isOverdue(task), reading the clock: date-fns isPast(date) is
\* date.getTime() < Date.now().
isOverdue(task, clock) ==
    ~task.completed /\ task.deadline # InvalidDate /\ task.deadline < clock

\* isDueSoon(task, withinHours), reading the clock.
isDueSoon(task, withinHours, clock) ==
    IF task.completed THEN FALSE
    ELSE LET hoursLeft == differenceInHours(task.deadline, clock)
         IN  hoursLeft # NaN /\ hoursLeft >= 0 /\ hoursLeft <= withinHours

(***************************************************************************)
(* Strings                                                                 *)
(***************************************************************************)
Alphabet == {"a", "A", "b", "B", " "}

\* String.prototype.toLowerCase, one character.
LowerChar(c) == CASE c = "A" -> "a" [] c = "B" -> "b" [] OTHER -> c

\* String.prototype.toLowerCase.
toLowerCase(s) == [i \in 1..Len(s) |-> LowerChar(s[i])]

RECURSIVE trimStart(_)
trimStart(s) ==
    IF s # <<>> /\ Head(s) = " " THEN trimStart(Tail(s)) ELSE s

RECURSIVE trimEnd(_)
trimEnd(s) ==
    IF s # <<>> /\ s[Len(s)] = " " THEN trimEnd(SubSeq(s, 1, Len(s) - 1)) ELSE s

\* String.prototype.trim.
trim(s) == trimEnd(trimStart(s))

\* String.prototype.includes: q occurs in s as a substring.
includes(s, q) ==
    \E i \in 1..(Len(s) - Len(q) + 1) : SubSeq(s, i, i + Len(q) - 1) = q

\* Array.prototype.includes: x is an element of arr.
arrayIncludes(arr, x) == \E i \in 1..Len(arr) : arr[i] = x

\* The weight of a character: its UTF-16 code unit, or its collation weights
\* (the primary weight orders the letters whatever their case, the tertiary
\* weight puts lower case first).
CharWeight(kind, c) ==
    CASE kind = "codeunit" ->
            (CASE c = " " -> 32 [] c = "A" -> 65 [] c = "B" -> 66
               [] c = "a" -> 97 [] c = "b" -> 98)
      [] kind = "primary" ->
            (CASE c = " " -> 0 [] c \in {"a", "A"} -> 1 [] c \in {"b", "B"} -> 2)
      [] kind = "tertiary" ->
            (IF c \in {"A", "B"} THEN 1 ELSE 0)

\* Lexicographic comparison of two strings by a weight of their characters:
\* negative, zero or positive.
RECURSIVE CompareBy(_, _, _)
CompareBy(kind, a, b) ==
    IF a = <<>> /\ b = <<>> THEN 0
    ELSE IF a = <<>> THEN -1
    ELSE IF b = <<>> THEN 1
    ELSE IF CharWeight(kind, Head(a)) # CharWeight(kind, Head(b))
         THEN CharWeight(kind, Head(a)) - CharWeight(kind, Head(b))
         ELSE CompareBy(kind, Tail(a), Tail(b))

Collations == {"locale", "codeunit"}

\* String.prototype.localeCompare. The collation is the engine's: a locale
\* collator (letters first, then case) or plain code-unit order.
localeCompare(a, b, coll) ==
    IF coll = "codeunit" THEN CompareBy("codeunit", a, b)
    ELSE LET p == CompareBy("primary", a, b)
         IN  IF p # 0 THEN p ELSE CompareBy("tertiary", a, b)

(***************************************************************************)
(* utils/sortAlgorithm.ts: comparators                                     *)
(***************************************************************************)
SortOrders == {"smart", "deadline", "priority", "createdAt", "alpha"}

\* The body of the switch of getComparator: the order-specific comparison.
OrderCompare(order, a, b, coll) ==
    CASE order = "smart" ->
            OrElse(b.sortScore, 0) - OrElse(a.sortScore, 0)
      [] order = "deadline" ->
            a.deadline - b.deadline
      [] order = "priority" ->
            LET diff == PRIORITY_WEIGHTS[b.priority] - PRIORITY_WEIGHTS[a.priority]
            IN  IF diff # 0 THEN diff ELSE a.deadline - b.deadline
      [] order = "createdAt" ->
            b.createdAt - a.createdAt
      [] order = "alpha" ->
            localeCompare(a.title, b.title, coll)
      [] OTHER -> 0

\* getComparator without the completion pre-check.
getComparator_noCompletedCheck(order, a, b, coll) == OrderCompare(order, a, b, coll)

\* getComparator with the priority order's tie-break left out.
getComparator_noTieBreak(order, a, b, coll) ==
    IF a.completed # b.completed THEN (IF a.completed THEN 1 ELSE -1)
    ELSE IF order = "priority"
         THEN PRIORITY_WEIGHTS[b.priority] - PRIORITY_WEIGHTS[a.priority]
         ELSE OrderCompare(order, a, b, coll)

\* getComparator(order)(a, b).
getComparator(order, a, b, coll) ==
    IF a.completed # b.completed THEN (IF a.completed THEN 1 ELSE -1)
    ELSE OrderCompare(order, a, b, coll)

\* The number of elements at the end of `sorted` that must follow x.
RECURSIVE TrailingAfter(_, _, _, _)
TrailingAfter(sorted, x, order, coll) ==
    IF sorted = <<>> THEN 0
    ELSE IF getComparator(order, sorted[Len(sorted)], x, coll) > 0
         THEN 1 + TrailingAfter(SubSeq(sorted, 1, Len(sorted) - 1), x, order, coll)
         ELSE 0

\* The same count, taking elements that compare equal to x as well.
RECURSIVE TrailingAfterOrEqual(_, _, _, _)
TrailingAfterOrEqual(sorted, x, order, coll) ==
    IF sorted = <<>> THEN 0
    ELSE IF getComparator(order, sorted[Len(sorted)], x, coll) >= 0
         THEN 1 + TrailingAfterOrEqual(SubSeq(sorted, 1, Len(sorted) - 1), x, order, coll)
         ELSE 0

InsertAt(sorted, x, k) ==
    SubSeq(sorted, 1, Len(sorted) - k) \o <<x>>
        \o SubSeq(sorted, Len(sorted) - k + 1, Len(sorted))

\* An insertion that moves x before the elements equal to it: not stable.
InsertSorted_unstable(sorted, x, order, coll) ==
    InsertAt(sorted, x, TrailingAfterOrEqual(sorted, x, order, coll))

\* x put into `sorted` after every element that does not compare greater.
InsertSorted(sorted, x, order, coll) ==
    InsertAt(sorted, x, TrailingAfter(sorted, x, order, coll))

\* Array.prototype.sort(getComparator(order)): a stable sort (ECMAScript 2019),
\* computed as an insertion sort from the left.
RECURSIVE ArraySort(_, _, _)
ArraySort(arr, order, coll) ==
    IF arr = <<>> THEN <<>>
    ELSE InsertSorted(ArraySort(SubSeq(arr, 1, Len(arr) - 1), order, coll),
                      arr[Len(arr)], order, coll)

(***************************************************************************)
(* utils/sortAlgorithm.ts: sortAndFilterTasks                              *)
(*                                                                         *)
(* An array value is [ref, items]: ref is "tasks" when the value is the    *)
(* caller's array object itself and "fresh" when it is a new array.        *)
(***************************************************************************)
\* Array.prototype.filter returns a new array.
Fresh(items) == [ref |-> "fresh", items |-> items]

\* `result = tasks`: the caller's array itself, not a copy.
SpreadCopy_alias(arr) == [ref |-> "tasks", items |-> arr]

\* let result = [...tasks]
SpreadCopy(arr) == Fresh(arr)

\* 1. Status filter
StatusFilter(result, f) ==
    IF f.status = "active" THEN
        LET Test(t) == ~t.completed IN Fresh(SelectSeq(result.items, Test))
    ELSE IF f.status = "completed" THEN
        LET Test(t) == t.completed IN Fresh(SelectSeq(result.items, Test))
    ELSE result

\* The priority filter left out.
PriorityFilter_skipped(result, f) == result

\* 2. Priority filter
PriorityFilter(result, f) ==
    IF f.priority # "all" THEN
        LET Test(t) == t.priority = f.priority IN Fresh(SelectSeq(result.items, Test))
    ELSE result

\* 3. Category filter
CategoryFilter(result, f) ==
    IF f.category # "all" THEN
        LET Test(t) == t.category = f.category IN Fresh(SelectSeq(result.items, Test))
    ELSE result

\* The tag filter left out.
TagFilter_skipped(result, f) == result

\* 4. Tag filter: `if (filter.tag)` is false for null and for the empty string.
TagFilter(result, f) ==
    IF IsPresent(f.tag) /\ f.tag[1] # <<>> THEN
        LET Test(t) == arrayIncludes(t.tags, f.tag[1]) IN Fresh(SelectSeq(result.items, Test))
    ELSE result

\* The text search over title and description only.
SearchFilter_noTags(result, f) ==
    IF trim(f.searchQuery) # <<>> THEN
        LET q == trim(toLowerCase(f.searchQuery))
            Test(t) ==
                \/ includes(toLowerCase(t.title), q)
                \/ includes(toLowerCase(t.description), q)
        IN  Fresh(SelectSeq(result.items, Test))
    ELSE result

\* 5. Text search (title, description, tags)
SearchFilter(result, f) ==
    IF trim(f.searchQuery) # <<>> THEN
        LET q == trim(toLowerCase(f.searchQuery))
            Test(t) ==
                \/ includes(toLowerCase(t.title), q)
                \/ includes(toLowerCase(t.description), q)
                \/ \E i \in 1..Len(t.tags) : includes(toLowerCase(t.tags[i]), q)
        IN  Fresh(SelectSeq(result.items, Test))
    ELSE result

\* sortAndFilterTasks(tasks, filter, order): the returned array, and the
\* caller's array as the call leaves it (result.sort sorts in place).
sortAndFilterTasks(tasksArr, f, order, coll) ==
    LET r0 == SpreadCopy(tasksArr)
        r1 == StatusFilter(r0, f)
        r2 == PriorityFilter(r1, f)
        r3 == CategoryFilter(r2, f)
        r4 == TagFilter(r3, f)
        r5 == SearchFilter(r4, f)
        sorted == ArraySort(r5.items, order, coll)
    IN  [returned |-> sorted,
         tasks    |-> IF r5.ref = "tasks" THEN sorted ELSE tasksArr]

(***************************************************************************)
(* Task records (types/index.ts)                                           *)
(***************************************************************************)
Statuses == {"all", "active", "completed"}

initialFilter ==
    [status |-> "all", priority |-> "all", category |-> "all",
     searchQuery |-> <<>>, tag |-> Absent]

\* A Task with nothing set: the fields an input set does not vary keep these.
BlankTask ==
    [id |-> 0, userId |-> "u1", title |-> <<"a">>, description |-> <<>>,
     deadline |-> 0, priority |-> "low", category |-> "work", tags |-> <<>>,
     completed |-> FALSE, createdAt |-> 0, updatedAt |-> 0, sortScore |-> Absent]

\* The sequences of at most n elements of S, each task numbered by its place
\* in the sequence (ids are unique).
Lists(S, n) ==
    UNION { { [i \in 1..k |-> [f[i] EXCEPT !.id = i]] : f \in [1..k -> S] } : k \in 0..n }

(***************************************************************************)
(* Scorer harness: calculateSmartScore called on one task as the clock     *)
(* advances.                                                               *)
(***************************************************************************)
ClockTimes ==
    {0, 1, Hours(1), Hours(200), Hours(720) + 1, Hours(800), Hours(1500)}

ScoreTasks ==
    { [BlankTask EXCEPT !.completed = c, !.priority = p,
                        !.deadline = d, !.createdAt = cr] :
        c \in BOOLEAN, p \in Priorities, d \in ClockTimes, cr \in ClockTimes }

\* Tasks one of whose timestamps does not parse.
InvalidScoreTasks ==
    { [BlankTask EXCEPT !.completed = c, !.priority = p,
                        !.deadline = d, !.createdAt = cr] :
        c \in BOOLEAN, p \in Priorities,
        d \in ClockTimes \cup {InvalidDate}, cr \in ClockTimes \cup {InvalidDate} }
    \ ScoreTasks

ScoreCall ==
    /\ Len(scCalls) < MaxCalls
    /\ scCalls' = Append(scCalls,
                         [at |-> now, score |-> calculateSmartScore(scTask, now)])
    /\ UNCHANGED <<scTask, timeVars, engineVars, storeVars, asyncVars>>

\* The windows isDueSoon is asked about: TaskCard asks about 24 hours.
DueWindows == {1, 24}

\* isOverdue(task) and isDueSoon(task, withinHours) called at the same instant.
DueCall ==
    /\ Len(scCalls) < MaxCalls
    /\ \E n \in DueWindows :
          scCalls' = Append(scCalls,
                            [at |-> now, withinHours |-> n,
                             overdue |-> isOverdue(scTask, now),
                             dueSoon |-> isDueSoon(scTask, n, now)])
    /\ UNCHANGED <<scTask, timeVars, engineVars, storeVars, asyncVars>>

ScoreClockAdvance ==
    /\ \E t \in ClockTimes : t > now /\ now' = t
    /\ UNCHANGED <<collation, scoreVars, engineVars, storeVars, asyncVars>>

(***************************************************************************)
(* Engine harness: sortAndFilterTasks called once on a caller's array.     *)
(***************************************************************************)
Titles == {<<"a">>, <<"A">>, <<"B">>}

\* The tasks of the sort cases: what the comparator of `order` reads varies.
SortShapes(order) ==
    CASE order = "smart" ->
            { [BlankTask EXCEPT !.completed = c, !.sortScore = s] :
                c \in BOOLEAN,
                s \in {Absent, Some(0), Some(80003)} }
      [] order = "deadline" ->
            { [BlankTask EXCEPT !.completed = c, !.deadline = d] :
                c \in BOOLEAN, d \in {Hours(10), Hours(10) + 1, Hours(20)} }
      [] order = "priority" ->
            { [BlankTask EXCEPT !.completed = c, !.priority = p, !.deadline = d] :
                c \in BOOLEAN, p \in {"low", "high", "critical"},
                d \in {Hours(10), Hours(20)} }
      [] order = "createdAt" ->
            { [BlankTask EXCEPT !.completed = c, !.createdAt = cr] :
                c \in BOOLEAN, cr \in {0, 1, Hours(5)} }
      [] order = "alpha" ->
            { [BlankTask EXCEPT !.completed = c, !.title = ti] :
                c \in BOOLEAN, ti \in Titles }

TextProfiles ==
    { [title |-> <<"A", "b">>, description |-> <<>>, tags |-> <<>>],
      [title |-> <<"b">>, description |-> <<"a", " ", "B">>, tags |-> << <<"a">> >>],
      [title |-> <<"B">>, description |-> <<>>, tags |-> << <<"b">>, <<"A", "b">> >>] }

\* The tasks of the filter cases: what the five filters read varies.
FilterShapes ==
    { [BlankTask EXCEPT !.completed = c, !.priority = p, !.category = cat,
                        !.title = tx.title, !.description = tx.description,
                        !.tags = tx.tags] :
        c \in BOOLEAN, p \in {"high", "low"}, cat \in {"work", "personal"},
        tx \in TextProfiles }

FilterArgs ==
    { [status |-> s, priority |-> p, category |-> cat, searchQuery |-> q, tag |-> tg] :
        s \in Statuses, p \in {"all", "high"}, cat \in {"all", "work"},
        q \in {<<>>, <<" ">>, <<"A", " ">>, <<"a", "b">>},
        tg \in {Absent, Some(<<>>), Some(<<"a">>)} }

InitSortCases ==
    /\ egOrder \in SortOrders
    /\ egTasks \in Lists(SortShapes(egOrder), MaxTasks)
    /\ egFilter \in { [initialFilter EXCEPT !.status = s] : s \in Statuses }
    /\ collation \in (IF egOrder = "alpha" THEN Collations ELSE {"locale"})

InitFilterCases ==
    /\ egOrder = "smart"
    /\ egTasks \in Lists(FilterShapes, MaxFilterTasks)
    /\ egFilter \in FilterArgs
    /\ collation = "locale"

SortAndFilterCall ==
    /\ egResult = Absent
    /\ LET out == sortAndFilterTasks(egTasks, egFilter, egOrder, collation)
       IN  /\ egResult' = Some(out.returned)
           /\ egTasks' = out.tasks
    /\ UNCHANGED <<egFilter, egOrder, timeVars, scoreVars, storeVars, asyncVars>>

(***************************************************************************)
(* services/taskService.ts over utils/storage.ts                           *)
(***************************************************************************)
\* The index of the first task with this id, 0 when there is none
\* (findIndex, -1).
findIndex(arr, taskId) ==
    IF \E i \in 1..Len(arr) : arr[i].id = taskId
    THEN CHOOSE i \in 1..Len(arr) :
            /\ arr[i].id = taskId
            /\ \A j \in 1..(i - 1) : arr[j].id # taskId
    ELSE 0

\* { ...task, ...updates }
Merge(task, updates) ==
    [k \in DOMAIN task |-> IF k \in DOMAIN updates THEN updates[k] ELSE task[k]]

\* .sort((a, b) => new Date(b.createdAt) - new Date(a.createdAt)): stable.
RECURSIVE SortNewestFirst(_)
SortNewestFirst(arr) ==
    IF arr = <<>> THEN <<>>
    ELSE LET sorted == SortNewestFirst(SubSeq(arr, 1, Len(arr) - 1))
             x == arr[Len(arr)]
             after == { i \in 1..Len(sorted) : x.createdAt > sorted[i].createdAt }
             k == IF after = {} THEN Len(sorted) + 1
                  ELSE CHOOSE i \in after : \A j \in after : i <= j
         IN  SubSeq(sorted, 1, k - 1) \o <<x>> \o SubSeq(sorted, k, Len(sorted))

\* taskService.getTasksByUser(userId)
getTasksByUser(all, userId) ==
    LET Mine(t) == t.userId = userId
    IN  SortNewestFirst(SelectSeq(all, Mine))

\* taskService.createTask(data): the new record, createdAt and updatedAt read
\* from the clock.
createTask(data, newId, clock) ==
    [data EXCEPT !.id = newId, !.createdAt = clock, !.updatedAt = clock]

\* The merge with the id kept and updatedAt left as the merge gives it.
updateStored_staleUpdatedAt(all, taskId, updates, clock) ==
    LET index == findIndex(all, taskId)
    IN  [all EXCEPT ![index] = [Merge(all[index], updates) EXCEPT !.id = taskId]]

\* taskService.updateTask(taskId, updates) on a stored array that has the id:
\* the array written back.
updateStored(all, taskId, updates, clock) ==
    LET index == findIndex(all, taskId)
    IN  [all EXCEPT ![index] =
            [Merge(all[index], updates) EXCEPT !.id = taskId, !.updatedAt = clock]]

\* taskService.deleteTask(taskId): the array written back.
deleteStored(all, taskId) ==
    LET Other(t) == t.id # taskId IN SelectSeq(all, Other)

(***************************************************************************)
(* store/tasksSlice.ts: thunks with their reducers, and reducers           *)
(*                                                                         *)
(* A thunk is one step here: its service call, the storage read and write  *)
(* under it and the reducer of its outcome, with no other dispatch in      *)
(* between. Storage reads and writes succeed.                              *)
(***************************************************************************)
\* The record passed on as the service returned it, with no score.
WithScore_unscored(task, clock) == task

\* { ...task, sortScore: calculateSmartScore(task) }
WithScore(task, clock) ==
    [task EXCEPT !.sortScore = Some(calculateSmartScore(task, clock))]

\* state.tasks[index] = action.payload, when the id is in state.tasks.
ReplaceById(arr, task) ==
    LET index == findIndex(arr, task.id)
    IN  IF index # 0 THEN [arr EXCEPT ![index] = task] ELSE arr

UserIds == {"u1"}

\* What the add form submits (screens/tasks/AddTaskScreen.tsx).
NewTaskData ==
    { [BlankTask EXCEPT !.priority = p, !.deadline = d] :
        p \in {"high", "medium"}, d \in {Hours(200), Hours(800)} }

\* The update payloads dispatched.
UpdatePayloads ==
    { [priority |-> "medium"], [deadline |-> Hours(800)] }

StoreTimes == {0, Hours(100)}

\* Update payloads that name another task's id and an updatedAt.
ServiceUpdates ==
    { [priority |-> "medium"],
      [id |-> 1, updatedAt |-> 0],
      [id |-> 2, title |-> <<"B">>] }

\* Update payloads as taskService.updateTask accepts them: any Partial<Task>.
PartialTasks ==
    UpdatePayloads \cup { [createdAt |-> Hours(50)], [title |-> <<"B">>, completed |-> TRUE] }

\* fetchTasks(userId): pending, then fulfilled.
FetchTasks(userId) ==
    /\ tasks' = [i \in 1..Len(getTasksByUser(storage, userId)) |->
                    WithScore(getTasksByUser(storage, userId)[i], now)]
    /\ loading' = FALSE
    /\ error' = Absent
    /\ UNCHANGED <<storage, filter, sortOrder, nextId, timeVars, scoreVars, engineVars, asyncVars>>

\* addTask(taskData): pending, then fulfilled.
AddTask(taskData) ==
    /\ Len(storage) < MaxStored
    /\ nextId <= MaxIds
    /\ LET task == createTask(taskData, nextId, now)
       IN  /\ storage' = Append(storage, task)
           /\ tasks' = Append(tasks, WithScore(task, now))
    /\ nextId' = nextId + 1
    /\ loading' = FALSE
    /\ error' = Absent
    /\ UNCHANGED <<filter, sortOrder, timeVars, scoreVars, engineVars, asyncVars>>

\* updateTask({ id, updates }): fulfilled, or rejected when the service throws.
UpdateTask(id, updates) ==
    /\ IF findIndex(storage, id) = 0
       THEN /\ error' = Some("not found")
            /\ UNCHANGED <<storage, tasks>>
       ELSE LET all == updateStored(storage, id, updates, now)
                task == all[findIndex(all, id)]
            IN  /\ storage' = all
                /\ tasks' = ReplaceById(tasks, WithScore(task, now))
                /\ UNCHANGED error
    /\ UNCHANGED <<loading, filter, sortOrder, nextId, timeVars, scoreVars, engineVars, asyncVars>>

\* deleteTask(taskId): fulfilled.
DeleteTask(taskId) ==
    /\ storage' = deleteStored(storage, taskId)
    /\ LET Other(t) == t.id # taskId IN tasks' = SelectSeq(tasks, Other)
    /\ UNCHANGED <<loading, error, filter, sortOrder, nextId, timeVars, scoreVars, engineVars, asyncVars>>

\* toggleTaskComplete(taskId): fulfilled, or rejected when the task is in
\* neither state.tasks nor storage.
ToggleTaskComplete(taskId) ==
    /\ IF findIndex(tasks, taskId) = 0 \/ findIndex(storage, taskId) = 0
       THEN /\ error' = Some("not found")
            /\ UNCHANGED <<storage, tasks>>
       ELSE LET existing == tasks[findIndex(tasks, taskId)]
                all == updateStored(storage, taskId,
                                    [completed |-> ~existing.completed], now)
                task == all[findIndex(all, taskId)]
            IN  /\ storage' = all
                /\ tasks' = ReplaceById(tasks, WithScore(task, now))
                /\ UNCHANGED error
    /\ UNCHANGED <<loading, filter, sortOrder, nextId, timeVars, scoreVars, engineVars, asyncVars>>

\* setFilter(payload), as the filter bar dispatches it: { status }.
SetFilter(status) ==
    /\ filter' = [filter EXCEPT !.status = status]
    /\ UNCHANGED <<storage, tasks, loading, error, sortOrder, nextId,
                   timeVars, scoreVars, engineVars, asyncVars>>

\* setSortOrder(order)
SetSortOrder(order) ==
    /\ sortOrder' = order
    /\ UNCHANGED <<storage, tasks, loading, error, filter, nextId,
                   timeVars, scoreVars, engineVars, asyncVars>>

\* clearTasks()
ClearTasks ==
    /\ tasks' = <<>>
    /\ filter' = initialFilter
    /\ error' = Absent
    /\ UNCHANGED <<storage, loading, sortOrder, nextId, timeVars, scoreVars, engineVars, asyncVars>>

\* Time passes: the clock reaches t.
AdvanceClockTo(t) ==
    /\ t > now
    /\ now' = t
    /\ UNCHANGED <<collation, storeVars, scoreVars, engineVars, asyncVars>>

AdvanceClock == \E t \in StoreTimes : AdvanceClockTo(t)

\* The add form over a month: the form's default deadline, 24 hours after the
\* time it is opened (AddTaskScreen.tsx, hoursFromNowISO(24)), at the two times
\* of AgingTimes.
AgingTaskData ==
    { [BlankTask EXCEPT !.priority = p, !.deadline = d] :
        p \in {"low", "critical"}, d \in {Hours(24), Hours(774)} }

AgingTimes == {0, Hours(750)}

\* screens/tasks/HomeScreen.tsx: displayedTasks, the memo of
\* sortAndFilterTasks(tasks, filter, sortOrder).
displayedTasks == sortAndFilterTasks(tasks, filter, sortOrder, collation).returned

(***************************************************************************)
(* store/tasksSlice.ts: the thunks step by step                            *)
(*                                                                         *)
(* A dispatched thunk is a call in flight. It runs to its first await at   *)
(* the dispatch (pc "read": readAll is awaited), resumes when the read     *)
(* resolves and runs to `await writeAll` (pc "write"), resumes when the    *)
(* write has settled (pc "settle") and ends by dispatching its fulfilled   *)
(* or rejected action. Calls in flight take their steps in any order.      *)
(***************************************************************************)
Call(op, pc, id, arg, out) == [op |-> op, pc |-> pc, id |-> id, arg |-> arg, out |-> out]

\* The outcome a thunk hands to its reducer.
Fulfilled(value) == [ok |-> TRUE, value |-> value]
Rejected(message) == [ok |-> FALSE, value |-> message]

RemoveAt(seq, i) == SubSeq(seq, 1, i - 1) \o SubSeq(seq, i + 1, Len(seq))

\* dispatch(fetchTasks(userId)): fetchTasks.pending.
DispatchFetch(userId) ==
    /\ Len(calls) < MaxInflight
    /\ calls' = Append(calls, Call("fetch", "read", 0, userId, <<>>))
    /\ loading' = TRUE
    /\ error' = Absent
    /\ UNCHANGED <<storage, tasks, filter, sortOrder, nextId, authVars,
                   timeVars, scoreVars, engineVars>>

\* dispatch(addTask(taskData)): addTask.pending; createTask builds newTask
\* before it awaits readAll.
DispatchAdd(taskData) ==
    /\ Len(calls) < MaxInflight
    /\ nextId <= MaxIds
    /\ calls' = Append(calls, Call("add", "read", nextId,
                                   createTask(taskData, nextId, now), <<>>))
    /\ nextId' = nextId + 1
    /\ loading' = TRUE
    /\ error' = Absent
    /\ UNCHANGED <<storage, tasks, filter, sortOrder, authVars,
                   timeVars, scoreVars, engineVars>>

\* dispatch(updateTask({ id, updates }))
DispatchUpdate(id, updates) ==
    /\ Len(calls) < MaxInflight
    /\ calls' = Append(calls, Call("update", "read", id, updates, <<>>))
    /\ UNCHANGED <<storeVars, authVars, timeVars, scoreVars, engineVars>>

\* dispatch(deleteTask(taskId))
DispatchDelete(taskId) ==
    /\ Len(calls) < MaxInflight
    /\ calls' = Append(calls, Call("delete", "read", taskId, <<>>, <<>>))
    /\ UNCHANGED <<storeVars, authVars, timeVars, scoreVars, engineVars>>

\* dispatch(toggleTaskComplete(taskId)): the thunk reads state.tasks at once,
\* and is rejected when the task is not there.
DispatchToggle(taskId) ==
    /\ Len(calls) < MaxInflight
    /\ IF findIndex(tasks, taskId) = 0
       THEN /\ error' = Some("Task not found")
            /\ UNCHANGED calls
       ELSE LET existing == tasks[findIndex(tasks, taskId)]
            IN  /\ calls' = Append(calls, Call("toggle", "read", taskId,
                                               [completed |-> ~existing.completed], <<>>))
                /\ UNCHANGED error
    /\ UNCHANGED <<storage, tasks, loading, filter, sortOrder, nextId, authVars,
                   timeVars, scoreVars, engineVars>>

\* The call after its readAll has resolved with `all`: the service runs to
\* its writeAll, or to its return or throw when it writes nothing.
AfterRead(call, all, clock) ==
    CASE call.op = "fetch" ->
            [call EXCEPT !.pc = "settle",
                         !.out = Fulfilled(getTasksByUser(all, call.arg))]
      [] call.op = "add" ->
            [call EXCEPT !.pc = "write", !.out = Append(all, call.arg)]
      [] call.op \in {"update", "toggle"} ->
            IF findIndex(all, call.id) = 0
            THEN [call EXCEPT !.pc = "settle", !.out = Rejected("not found")]
            ELSE [call EXCEPT !.pc = "write",
                              !.out = updateStored(all, call.id, call.arg, clock)]
      [] call.op = "delete" ->
            [call EXCEPT !.pc = "write", !.out = deleteStored(all, call.id)]

\* The call after its writeAll has settled: what the service returns.
AfterWrite(call) ==
    CASE call.op = "add" ->
            [call EXCEPT !.pc = "settle", !.out = Fulfilled(call.arg)]
      [] call.op \in {"update", "toggle"} ->
            [call EXCEPT !.pc = "settle",
                         !.out = Fulfilled(call.out[findIndex(call.out, call.id)])]
      [] call.op = "delete" ->
            [call EXCEPT !.pc = "settle", !.out = Fulfilled(call.id)]

\* state.tasks after the fulfilled reducer of the call.
FulfilledTasks(call, stateTasks, clock) ==
    CASE call.op = "fetch" ->
            [i \in 1..Len(call.out.value) |-> WithScore(call.out.value[i], clock)]
      [] call.op = "add" -> Append(stateTasks, WithScore(call.out.value, clock))
      [] call.op \in {"update", "toggle"} ->
            ReplaceById(stateTasks, WithScore(call.out.value, clock))
      [] call.op = "delete" ->
            LET Other(t) == t.id # call.out.value IN SelectSeq(stateTasks, Other)

\* readAll() of the i-th call in flight resolves.
CallRead(i) ==
    /\ i \in 1..Len(calls)
    /\ calls[i].pc = "read"
    /\ calls' = [calls EXCEPT ![i] = AfterRead(calls[i], storage, now)]
    /\ UNCHANGED <<storeVars, authVars, timeVars, scoreVars, engineVars>>

\* writeAll(all) of the i-th call in flight settles: setItem has written the
\* array, or has failed and logged the error.
CallWrite(i, written) ==
    /\ i \in 1..Len(calls)
    /\ calls[i].pc = "write"
    /\ storage' = IF written THEN calls[i].out ELSE storage
    /\ calls' = [calls EXCEPT ![i] = AfterWrite(calls[i])]
    /\ UNCHANGED <<tasks, loading, error, filter, sortOrder, nextId, authVars,
                   timeVars, scoreVars, engineVars>>

\* The i-th call in flight ends: its fulfilled or rejected reducer.
CallSettle(i) ==
    /\ i \in 1..Len(calls)
    /\ calls[i].pc = "settle"
    /\ calls' = RemoveAt(calls, i)
    /\ IF calls[i].out.ok
       THEN /\ tasks' = FulfilledTasks(calls[i], tasks, now)
            /\ UNCHANGED error
       ELSE /\ error' = Some(calls[i].out.value)
            /\ UNCHANGED tasks
    /\ loading' = IF calls[i].op \in {"fetch", "add"} THEN FALSE ELSE loading
    /\ UNCHANGED <<storage, filter, sortOrder, nextId, authVars,
                   timeVars, scoreVars, engineVars>>

\* What the screens dispatch in the step-by-step specifications.
FlightTaskData == { [BlankTask EXCEPT !.priority = "high"] }

FlightUpdates == { [priority |-> "medium"] }

(***************************************************************************)
(* services/authService.ts over utils/storage.ts                           *)
(***************************************************************************)
\* String.prototype.charCodeAt, for the characters of the passwords and of
\* the salt.
charCodeAt(c) ==
    CASE c = "0" -> 48 [] c = "2" -> 50 [] c = "5" -> 53
      [] c = "A" -> 65 [] c = "D" -> 68 [] c = "E" -> 69 [] c = "L" -> 76
      [] c = "M" -> 77 [] c = "O" -> 79 [] c = "R" -> 82 [] c = "S" -> 83
      [] c = "T" -> 84 [] c = "_" -> 95
      [] c = "a" -> 97 [] c = "d" -> 100 [] c = "o" -> 111 [] c = "p" -> 112
      [] c = "r" -> 114 [] c = "s" -> 115 [] c = "w" -> 119

\* const salt = 'TODOMASTER_SALT_2025'
salt ==
    <<"T", "O", "D", "O", "M", "A", "S", "T", "E", "R", "_",
      "S", "A", "L", "T", "_", "2", "0", "2", "5">>

\* The loop of hashPassword over the characters of `salted`: hash is a 32-bit
\* integer held as its two 16-bit halves <<high, low>>, and
\* (hash << 5) - hash + char is 31 * hash + char modulo 2^32.
RECURSIVE HashLoop(_, _)
HashLoop(hash, salted) ==
    IF salted = <<>> THEN hash
    ELSE LET low  == hash[2] * 31 + charCodeAt(Head(salted))
             high == hash[1] * 31 + (low \div 65536)
         IN  HashLoop(<<high % 65536, low % 65536>>, Tail(salted))

\* hashPassword(password): Math.abs(hash).toString(16).padStart(8, '0'), as
\* the two 16-bit halves (four hexadecimal digits each) of the magnitude.
hashPassword(password) ==
    LET hash == HashLoop(<<0, 0>>, password \o salt)
    IN  IF hash[1] < 32768 THEN hash
        ELSE IF hash[2] = 0 THEN <<65536 - hash[1], 0>>
        ELSE <<65535 - hash[1], 65536 - hash[2]>>

\* /^[^\s@]+@[^\s@]+\.[^\s@]+$/.test(email)
isValidEmail(email) ==
    \E i, j \in 1..Len(email) :
        /\ 1 < i /\ i + 1 < j /\ j < Len(email)
        /\ email[i] = "@" /\ email[j] = "."
        /\ \A k \in 1..Len(email) : k # i => email[k] \notin {" ", "@"}

\* The uniqueness check of register compared as the strings are, case and all.
emailExists_caseSensitive(usersArr, email) ==
    \E i \in 1..Len(usersArr) : usersArr[i].email = email

\* users.some(u => u.email.toLowerCase() === email.toLowerCase())
emailExists(usersArr, email) ==
    \E i \in 1..Len(usersArr) : toLowerCase(usersArr[i].email) = toLowerCase(email)

\* The ids uuid.v4() hands out to users, as strings.
UserIdNames == <<"u1", "u2", "u3", "u4", "u5", "u6", "u7", "u8">>

\* The message register(payload) throws, if it throws.
registerError(usersArr, payload) ==
    IF trim(payload.name) = <<>> THEN Some("Name is required")
    ELSE IF trim(payload.email) = <<>> \/ ~isValidEmail(payload.email)
        THEN Some("Please enter a valid email address")
    ELSE IF Len(payload.password) < 8
        THEN Some("Password must be at least 8 characters")
    ELSE IF emailExists(usersArr, payload.email)
        THEN Some("An account with this email already exists")
    ELSE Absent

\* const newUser: User = { id, name, email, passwordHash, createdAt }
newUser(payload, newId, clock) ==
    [id           |-> UserIdNames[newId],
     name         |-> trim(payload.name),
     email        |-> trim(toLowerCase(payload.email)),
     passwordHash |-> hashPassword(payload.password),
     createdAt    |-> clock]


\* users.find(u => u.email.toLowerCase() === email.toLowerCase().trim()): the
\* first match, or undefined.
findByEmail(usersArr, email) ==
    LET Matches(i) == toLowerCase(usersArr[i].email) = trim(toLowerCase(email))
    IN  IF \E i \in 1..Len(usersArr) : Matches(i)
        THEN Some(usersArr[CHOOSE i \in 1..Len(usersArr) :
                    Matches(i) /\ \A j \in 1..(i - 1) : ~Matches(j)])
        ELSE Absent

\* The message login(payload) throws, if it throws.
loginError(usersArr, payload) ==
    LET user == findByEmail(usersArr, payload.email)
    IN  IF ~IsPresent(user) THEN Some("No account found with this email")
        ELSE IF user[1].passwordHash # hashPassword(payload.password)
            THEN Some("Incorrect password")
        ELSE Absent

\* authService.getCurrentUser() on what storage holds: the user, or null.
getCurrentUser(usersArr, userId) ==
    IF ~IsPresent(userId) THEN Absent
    ELSE IF \E i \in 1..Len(usersArr) : usersArr[i].id = userId[1]
        THEN Some(usersArr[CHOOSE i \in 1..Len(usersArr) :
                    /\ usersArr[i].id = userId[1]
                    /\ \A j \in 1..(i - 1) : usersArr[j].id # userId[1]])
        ELSE Absent

(***************************************************************************)
(* store/authSlice.ts: thunks with their reducers, and reducers. A thunk   *)
(* is one step, as in the tasks slice; its storage reads and writes        *)
(* succeed. The removal logout asks of storage may fail.                   *)
(***************************************************************************)
\* initialState of the auth slice
authInitialState ==
    [currentUser |-> Absent, isAuthenticated |-> FALSE, loading |-> FALSE,
     error |-> Absent]

\* registerUser.pending / loginUser.pending
authPending(state) == [state EXCEPT !.loading = TRUE, !.error = Absent]

\* registerUser.fulfilled / loginUser.fulfilled
authFulfilled(state, user) ==
    [state EXCEPT !.loading = FALSE, !.currentUser = Some(user),
                  !.isAuthenticated = TRUE]

\* registerUser.rejected / loginUser.rejected
authRejected(state, message) ==
    [state EXCEPT !.loading = FALSE, !.error = Some(message)]

\* restoreSession.fulfilled without the test of its payload.
restoreSessionFulfilled_unguarded(state, payload) ==
    [state EXCEPT !.loading = FALSE, !.currentUser = payload,
                  !.isAuthenticated = TRUE]

\* restoreSession.fulfilled
restoreSessionFulfilled(state, payload) ==
    IF IsPresent(payload)
    THEN [state EXCEPT !.loading = FALSE, !.currentUser = payload,
                       !.isAuthenticated = TRUE]
    ELSE [state EXCEPT !.loading = FALSE]

\* What the register and login forms submit.
Names == {<<"a">>, <<" ">>}

Emails ==
    { <<"a", "@", "b", ".", "a">>, <<"A", "@", "b", ".", "a">>,
      <<"b", "@", "b", ".", "a">>, <<" ", "a", "@", "b", ".", "a">>,
      <<"a", "b">> }

Passwords ==
    { <<"p", "a", "s", "s", "w", "o", "r", "d">>,
      <<"p", "a", "s", "s", "w", "o", "r", "D">>,
      <<"p", "a", "s", "s">> }

RegisterPayloads ==
    { [name |-> n, email |-> e, password |-> pw] :
        n \in Names, e \in Emails, pw \in Passwords }

LoginPayloads == { [email |-> e, password |-> pw] : e \in Emails, pw \in Passwords }

ProfilePayloads == { [name |-> <<"b">>] }

\* registerUser(payload): pending, then fulfilled or rejected.
RegisterUser(payload) ==
    /\ nextId <= MaxIds
    /\ LET thrown == registerError(users, payload)
           user == newUser(payload, nextId, now)
       IN  IF IsPresent(thrown)
           THEN /\ auth' = authRejected(authPending(auth), thrown[1])
                /\ UNCHANGED <<users, currentUserId, nextId>>
           ELSE /\ users' = Append(users, user)
                /\ currentUserId' = Some(user.id)
                /\ nextId' = nextId + 1
                /\ auth' = authFulfilled(authPending(auth), user)
    /\ UNCHANGED <<storage, tasks, loading, error, filter, sortOrder, calls,
                   timeVars, scoreVars, engineVars>>

\* loginUser(payload): pending, then fulfilled or rejected.
LoginUser(payload) ==
    /\ LET thrown == loginError(users, payload)
           user == findByEmail(users, payload.email)[1]
       IN  IF IsPresent(thrown)
           THEN /\ auth' = authRejected(authPending(auth), thrown[1])
                /\ UNCHANGED currentUserId
           ELSE /\ currentUserId' = Some(user.id)
                /\ auth' = authFulfilled(authPending(auth), user)
    /\ UNCHANGED <<users, calls, storeVars, timeVars, scoreVars, engineVars>>

\* restoreSession(): pending, then fulfilled.
RestoreSession ==
    /\ auth' = restoreSessionFulfilled([auth EXCEPT !.loading = TRUE],
                                       getCurrentUser(users, currentUserId))
    /\ UNCHANGED <<users, currentUserId, calls, storeVars, timeVars, scoreVars, engineVars>>

\* logout(): the reducer, and the removeItem(CURRENT_USER_ID) it starts, which
\* removes the key, or fails and logs the error.
Logout(removed) ==
    /\ auth' = [auth EXCEPT !.currentUser = Absent, !.isAuthenticated = FALSE,
                            !.error = Absent]
    /\ currentUserId' = IF removed THEN Absent ELSE currentUserId
    /\ UNCHANGED <<users, calls, storeVars, timeVars, scoreVars, engineVars>>

\* clearError()
ClearError ==
    /\ auth' = [auth EXCEPT !.error = Absent]
    /\ UNCHANGED <<users, currentUserId, calls, storeVars, timeVars, scoreVars, engineVars>>

\* updateUserProfile(payload)
UpdateUserProfile(payload) ==
    /\ auth' = IF IsPresent(auth.currentUser)
               THEN [auth EXCEPT !.currentUser = Some(Merge(auth.currentUser[1], payload))]
               ELSE auth
    /\ UNCHANGED <<users, currentUserId, calls, storeVars, timeVars, scoreVars, engineVars>>

\* ProfileScreen handleLogout, "Sign Out" pressed: dispatch(clearTasks()) and
\* then dispatch(logout()), in one handler.
SignOut(removed) ==
    /\ tasks' = <<>>
    /\ filter' = initialFilter
    /\ error' = Absent
    /\ auth' = [auth EXCEPT !.currentUser = Absent, !.isAuthenticated = FALSE,
                            !.error = Absent]
    /\ currentUserId' = IF removed THEN Absent ELSE currentUserId
    /\ UNCHANGED <<storage, loading, sortOrder, nextId, users, calls,
                   timeVars, scoreVars, engineVars>>

\* The account of the sign-out specification.
SignOutAccount ==
    [name |-> <<"a">>, email |-> <<"a", "@", "b", ".", "a">>,
     password |-> <<"p", "a", "s", "s", "w", "o", "r", "d">>]

(***************************************************************************)
(* Specifications                                                          *)
(***************************************************************************)
ScoreIdle == scTask = BlankTask /\ scCalls = <<>>

EngineIdle ==
    /\ egTasks = <<>>
    /\ egFilter = initialFilter
    /\ egOrder = "smart"
    /\ egResult = Absent

\* initialState of the tasks slice, over empty storage.
StoreInitial ==
    /\ storage = <<>>
    /\ tasks = <<>>
    /\ loading = FALSE
    /\ error = Absent
    /\ filter = initialFilter
    /\ sortOrder = "smart"
    /\ nextId = 1

\* initialState of the auth slice, over empty storage, with no thunk in
\* flight.
AuthInitial ==
    /\ users = <<>>
    /\ currentUserId = Absent
    /\ auth = authInitialState
    /\ calls = <<>>

\* The application: the task store, the service under it and the clock.
Init ==
    /\ StoreInitial
    /\ AuthInitial
    /\ now = 0
    /\ collation = "locale"
    /\ ScoreIdle
    /\ EngineIdle

Next ==
    \/ \E u \in UserIds : FetchTasks(u)
    \/ \E d \in NewTaskData : AddTask(d)
    \/ \E id \in 1..MaxIds, u \in UpdatePayloads : UpdateTask(id, u)
    \/ \E id \in 1..MaxIds : DeleteTask(id)
    \/ \E id \in 1..MaxIds : ToggleTaskComplete(id)
    \/ \E s \in Statuses : SetFilter(s)
    \/ \E o \in {"smart", "deadline"} : SetSortOrder(o)
    \/ ClearTasks
    \/ AdvanceClock

Spec == Init /\ [][Next]_vars

\* The application over more than 30 days: tasks added, deleted and fetched
\* again as the clock passes the age at which the age boost is full.
NextAging ==
    \/ \E u \in UserIds : FetchTasks(u)
    \/ \E d \in AgingTaskData : AddTask(d)
    \/ \E id \in 1..MaxIds : DeleteTask(id)
    \/ \E t \in AgingTimes : AdvanceClockTo(t)

SpecAging == Init /\ [][NextAging]_vars

\* The four thunks that put task records into state.tasks, as the screens
\* dispatch them, and the clock.
NextThunks ==
    \/ \E u \in UserIds : FetchTasks(u)
    \/ \E d \in NewTaskData : AddTask(d)
    \/ \E id \in 1..MaxIds, u \in UpdatePayloads : UpdateTask(id, u)
    \/ \E id \in 1..MaxIds : ToggleTaskComplete(id)
    \/ AdvanceClock

SpecThunks == Init /\ [][NextThunks]_vars

\* taskService.updateTask under the updateTask thunk, on payloads that carry
\* an id and an updatedAt of their own.
NextService ==
    \/ \E d \in NewTaskData : AddTask(d)
    \/ \E id \in 1..MaxIds, u \in ServiceUpdates : UpdateTask(id, u)
    \/ AdvanceClock

SpecService == Init /\ [][NextService]_vars

\* The application with updateTask called on any Partial<Task>.
NextUpdate ==
    \/ \E d \in NewTaskData : AddTask(d)
    \/ \E id \in 1..MaxIds, u \in PartialTasks : UpdateTask(id, u)
    \/ \E id \in 1..MaxIds : ToggleTaskComplete(id)
    \/ AdvanceClock

SpecUpdate == Init /\ [][NextUpdate]_vars

\* The auth slice and the auth service under it.
NextAuth ==
    \/ \E p \in RegisterPayloads : RegisterUser(p)
    \/ \E p \in LoginPayloads : LoginUser(p)
    \/ RestoreSession
    \/ \E removed \in BOOLEAN : Logout(removed)
    \/ ClearError
    \/ \E p \in ProfilePayloads : UpdateUserProfile(p)

SpecAuth == Init /\ [][NextAuth]_vars

\* The task thunks one at a time, over a storage whose writes may fail.
NextFaulty ==
    \/ calls = <<>> /\ \E d \in FlightTaskData : DispatchAdd(d)
    \/ calls = <<>> /\ \E id \in 1..MaxIds, u \in FlightUpdates : DispatchUpdate(id, u)
    \/ calls = <<>> /\ \E id \in 1..MaxIds : DispatchDelete(id)
    \/ calls = <<>> /\ \E id \in 1..MaxIds : DispatchToggle(id)
    \/ \E i \in 1..MaxInflight : CallRead(i)
    \/ \E i \in 1..MaxInflight, written \in BOOLEAN : CallWrite(i, written)
    \/ \E i \in 1..MaxInflight : CallSettle(i)

SpecFaulty == Init /\ [][NextFaulty]_vars

\* The task thunks dispatched while others are in flight, as the buttons of
\* the home screen dispatch them without awaiting; storage writes succeed.
NextConcurrent ==
    \/ nextId <= MaxFlightTasks /\ \E d \in FlightTaskData : DispatchAdd(d)
    \/ \E id \in 1..MaxFlightTasks, u \in FlightUpdates : DispatchUpdate(id, u)
    \/ \E id \in 1..MaxFlightTasks : DispatchDelete(id)
    \/ \E i \in 1..MaxInflight : CallRead(i)
    \/ \E i \in 1..MaxInflight : CallWrite(i, TRUE)
    \/ \E i \in 1..MaxInflight : CallSettle(i)

SpecConcurrent == Init /\ [][NextConcurrent]_vars

\* The toggle button pressed while earlier presses are in flight.
NextToggles ==
    \/ nextId <= MaxFlightTasks /\ \E d \in FlightTaskData : DispatchAdd(d)
    \/ \E id \in 1..MaxFlightTasks : DispatchToggle(id)
    \/ \E i \in 1..MaxInflight : CallRead(i)
    \/ \E i \in 1..MaxInflight : CallWrite(i, TRUE)
    \/ \E i \in 1..MaxInflight : CallSettle(i)

SpecToggles == Init /\ [][NextToggles]_vars

\* A user signs in, works on the task screens and signs out while thunks are
\* in flight. The screens that dispatch the task thunks are mounted only while
\* isAuthenticated (AppNavigator), as the register and login screens are only
\* while it is false.
NextSignOut ==
    \/ ~auth.isAuthenticated /\ RegisterUser(SignOutAccount)
    \/ ~auth.isAuthenticated
          /\ LoginUser([email |-> SignOutAccount.email, password |-> SignOutAccount.password])
    \/ auth.isAuthenticated /\ DispatchFetch(auth.currentUser[1].id)
    \/ auth.isAuthenticated /\ nextId <= MaxFlightTasks + 1
          /\ \E d \in FlightTaskData : DispatchAdd(d)
    \/ \E i \in 1..MaxInflight : CallRead(i)
    \/ \E i \in 1..MaxInflight : CallWrite(i, TRUE)
    \/ \E i \in 1..MaxInflight : CallSettle(i)
    \/ auth.isAuthenticated /\ \E removed \in BOOLEAN : SignOut(removed)

SpecSignOut == Init /\ [][NextSignOut]_vars

\* The scorer on its own: any task, scored as time passes.
InitScore ==
    /\ scTask \in ScoreTasks
    /\ scCalls = <<>>
    /\ now \in ClockTimes
    /\ collation = "locale"
    /\ EngineIdle
    /\ StoreInitial
    /\ AuthInitial

NextScore == ScoreCall \/ ScoreClockAdvance

SpecScore == InitScore /\ [][NextScore]_vars

\* The scorer on its own, on tasks with a timestamp that does not parse.
InitScoreInvalid ==
    /\ scTask \in InvalidScoreTasks
    /\ scCalls = <<>>
    /\ now \in ClockTimes
    /\ collation = "locale"
    /\ EngineIdle
    /\ StoreInitial
    /\ AuthInitial

SpecScoreInvalid == InitScoreInvalid /\ [][NextScore]_vars

\* isOverdue and isDueSoon on their own: any task, asked as time passes.
NextDue == DueCall \/ ScoreClockAdvance

SpecDue == InitScore /\ [][NextDue]_vars

\* The filter/sort engine on its own: any input, one call.
InitEngine ==
    /\ InitSortCases \/ InitFilterCases
    /\ egResult = Absent
    /\ now = 0
    /\ ScoreIdle
    /\ StoreInitial
    /\ AuthInitial

NextEngine == SortAndFilterCall

SpecEngine == InitEngine /\ [][NextEngine]_vars

(***************************************************************************)
(* Properties                                                              *)
(***************************************************************************)
\* The array the engine harness got back.
Returned == egResult[1]

\* Some pair of the returned array was not in this order in the input.
SortMoved ==
    \E i, j \in 1..Len(Returned) : i < j /\ Returned[i].id > Returned[j].id

\* C1: under every sort order and filter, the list sortAndFilterTasks returns
\* never has a completed task before an incomplete one.
C1_CompletedLast ==
    IsPresent(egResult) =>
        \A i, j \in 1..Len(Returned) :
            i < j => ~(Returned[i].completed /\ ~Returned[j].completed)

\* C1 witness: under 'smart', the input had a completed task with the higher
\* cached score ahead of an incomplete one, and both were returned.
C1_Witness ==
    /\ IsPresent(egResult)
    /\ egOrder = "smart"
    /\ \E i, j \in 1..Len(egTasks) :
        /\ i < j
        /\ egTasks[i].completed /\ ~egTasks[j].completed
        /\ OrElse(egTasks[i].sortScore, 0) > OrElse(egTasks[j].sortScore, 0)
        /\ \E m, n \in 1..Len(Returned) :
              Returned[m] = egTasks[i] /\ Returned[n] = egTasks[j]

\* C2: a completed task scores exactly -1, whatever its priority, deadline,
\* createdAt and the time of the call.
C2_Sentinel ==
    \A k \in 1..Len(scCalls) :
        scTask.completed => scCalls[k].score = -ScoreScale

\* C2 witness: a completed critical task, overdue and a month old, was scored.
C2_Witness ==
    \E k \in 1..Len(scCalls) :
        /\ scTask.completed
        /\ scTask.priority = "critical"
        /\ scTask.deadline < scCalls[k].at
        /\ scCalls[k].at - scTask.createdAt > Hours(maxAgeHours)

\* C3: the score of a task with valid timestamps lies in [-1, 10], whatever
\* the order of createdAt, deadline and the time of the call.
C3_ScoreInRange ==
    \A k \in 1..Len(scCalls) :
        /\ scCalls[k].score >= -ScoreScale
        /\ scCalls[k].score <= 10 * ScoreScale

\* The five predicates of a filter, as the engine's contract states them.
StatusOk(t, f) ==
    \/ f.status = "all"
    \/ f.status = "active" /\ ~t.completed
    \/ f.status = "completed" /\ t.completed

PriorityOk(t, f) == f.priority = "all" \/ t.priority = f.priority

CategoryOk(t, f) == f.category = "all" \/ t.category = f.category

TagActive(f) == IsPresent(f.tag) /\ f.tag[1] # <<>>

TagOk(t, f) == TagActive(f) => \E i \in 1..Len(t.tags) : t.tags[i] = f.tag[1]

SearchActive(f) == \E i \in 1..Len(f.searchQuery) : f.searchQuery[i] # " "

SearchOk(t, f) ==
    SearchActive(f) =>
        LET q == trim(toLowerCase(f.searchQuery))
        IN  \/ includes(toLowerCase(t.title), q)
            \/ includes(toLowerCase(t.description), q)
            \/ \E i \in 1..Len(t.tags) : includes(toLowerCase(t.tags[i]), q)

SatisfiesAll(t, f) ==
    StatusOk(t, f) /\ PriorityOk(t, f) /\ CategoryOk(t, f) /\ TagOk(t, f) /\ SearchOk(t, f)

\* C4: the returned list holds exactly the input tasks that satisfy all the
\* active predicates: none of them dropped, no other kept, none duplicated.
C4_ExactSubset ==
    IsPresent(egResult) =>
        /\ \A i \in 1..Len(egTasks) :
              SatisfiesAll(egTasks[i], egFilter)
                  <=> \E j \in 1..Len(Returned) : Returned[j] = egTasks[i]
        /\ \A j \in 1..Len(Returned) :
              \E i \in 1..Len(egTasks) : Returned[j] = egTasks[i]
        /\ \A j, k \in 1..Len(Returned) : j # k => Returned[j] # Returned[k]

\* C4 witness: all five predicates were active and a task passed them all.
C4_Witness ==
    /\ IsPresent(egResult)
    /\ egFilter.status # "all"
    /\ egFilter.priority # "all"
    /\ egFilter.category # "all"
    /\ TagActive(egFilter)
    /\ SearchActive(egFilter)
    /\ Returned # <<>>

\* C5: a call of sortAndFilterTasks leaves the caller's array as it was: the
\* same elements in the same order, no record changed.
C5_InputUntouched == [][egTasks' = egTasks]_vars

\* C5 witness: with no filter active, the call returned the input in another
\* order.
C5_Witness ==
    /\ IsPresent(egResult)
    /\ egFilter = initialFilter
    /\ Len(Returned) = Len(egTasks)
    /\ SortMoved

\* Two tasks the comparator of `order` treats as equal: the same completion
\* state and the same sort key.
SameSortKey(order, a, b) ==
    /\ a.completed = b.completed
    /\ CASE order = "smart" -> OrElse(a.sortScore, 0) = OrElse(b.sortScore, 0)
         [] order = "deadline" -> a.deadline = b.deadline
         [] order = "priority" -> a.priority = b.priority /\ a.deadline = b.deadline
         [] order = "createdAt" -> a.createdAt = b.createdAt
         [] order = "alpha" -> a.title = b.title

\* C6: the sort is stable: two returned tasks with the same completion state
\* and the same sort key keep the relative order they had in the input.
C6_Stable ==
    IsPresent(egResult) =>
        \A i, j \in 1..Len(Returned) :
            (i < j /\ SameSortKey(egOrder, Returned[i], Returned[j]))
                => Returned[i].id < Returned[j].id

\* C6 witness: the sort moved a task past two tasks of equal key, which kept
\* their order.
C6_Witness ==
    /\ IsPresent(egResult)
    /\ SortMoved
    /\ \E i, j \in 1..Len(Returned) :
          i < j /\ SameSortKey(egOrder, Returned[i], Returned[j])

\* C7: under 'priority', of two returned tasks in the same completion state
\* the one of higher priority weight comes first, and of two of equal
\* priority the one with the earlier deadline comes first.
C7_PriorityOrder ==
    (IsPresent(egResult) /\ egOrder = "priority") =>
        \A i, j \in 1..Len(Returned) :
            (i < j /\ Returned[i].completed = Returned[j].completed) =>
                LET wi == PRIORITY_WEIGHTS[Returned[i].priority]
                    wj == PRIORITY_WEIGHTS[Returned[j].priority]
                IN  /\ wi >= wj
                    /\ wi = wj => Returned[i].deadline <= Returned[j].deadline

\* C7 witness: under 'priority', the input had a lower priority ahead of a
\* higher one and, among equals, a later deadline ahead of an earlier one.
C7_Witness ==
    /\ IsPresent(egResult)
    /\ egOrder = "priority"
    /\ egFilter.status = "all"
    /\ \E i, j \in 1..Len(egTasks) :
          /\ i < j
          /\ egTasks[i].completed = egTasks[j].completed
          /\ PRIORITY_WEIGHTS[egTasks[i].priority] < PRIORITY_WEIGHTS[egTasks[j].priority]
    /\ \E i, j \in 1..Len(egTasks) :
          /\ i < j
          /\ egTasks[i].completed = egTasks[j].completed
          /\ egTasks[i].priority = egTasks[j].priority
          /\ egTasks[i].deadline > egTasks[j].deadline

\* C8: the list shown under 'smart' never has an incomplete task ahead of
\* another incomplete task whose score, recomputed at the current time, is
\* strictly higher.
C8_RankingIsCurrent ==
    sortOrder = "smart" =>
        \A i, j \in 1..Len(displayedTasks) :
            (i < j /\ ~displayedTasks[i].completed /\ ~displayedTasks[j].completed)
                => calculateSmartScore(displayedTasks[j], now)
                       <= calculateSmartScore(displayedTasks[i], now)

\* C9: the score depends on nothing but the task: two evaluations on the same
\* task return the same score, whenever they are made.
C9_SameTaskSameScore ==
    \A i, j \in 1..Len(scCalls) : scCalls[i].score = scCalls[j].score

\* C10: for an incomplete task whose deadline is at or before the time of the
\* call, the deadline component is exactly 1.0, and the score is the score of
\* the same task with any other deadline at or before that time.
C10_OverdueSaturation ==
    \A k \in 1..Len(scCalls) :
        (~scTask.completed /\ scTask.deadline <= scCalls[k].at) =>
            /\ deadlineUrgency(scTask.deadline, scCalls[k].at) = DecayScale
            /\ \A d \in ClockTimes :
                  d <= scCalls[k].at =>
                      scCalls[k].score =
                          calculateSmartScore([scTask EXCEPT !.deadline = d], scCalls[k].at)

\* C10 witness: an incomplete task more than a week overdue was scored.
C10_Witness ==
    \E k \in 1..Len(scCalls) :
        /\ ~scTask.completed
        /\ scCalls[k].at - scTask.deadline > Hours(168)

\* C11: for an incomplete task whose deadline is strictly after the time of
\* the call, even by less than an hour, the deadline component is strictly
\* less than 1.0.
C11_SaturatesOnlyWhenOverdue ==
    \A k \in 1..Len(scCalls) :
        (~scTask.completed /\ scTask.deadline > scCalls[k].at) =>
            deadlineUrgency(scTask.deadline, scCalls[k].at) < DecayScale

\* C12: of two incomplete tasks that differ in deadline only, both deadlines
\* after the time of the call, the one with the later deadline has the lower
\* or equal deadline component and the lower or equal score.
C12_MonotonicDecay ==
    \A k \in 1..Len(scCalls) :
        (~scTask.completed /\ scTask.deadline > scCalls[k].at) =>
            \A d \in ClockTimes :
                d > scTask.deadline =>
                    /\ deadlineUrgency(d, scCalls[k].at)
                          <= deadlineUrgency(scTask.deadline, scCalls[k].at)
                    /\ calculateSmartScore([scTask EXCEPT !.deadline = d], scCalls[k].at)
                          <= scCalls[k].score

\* C12 witness: a task due in more than an hour was scored, and a later
\* deadline scores strictly lower.
C12_Witness ==
    \E k \in 1..Len(scCalls) :
        /\ ~scTask.completed
        /\ scTask.deadline - scCalls[k].at > Hours(1)
        /\ \E d \in ClockTimes :
              /\ d > scTask.deadline
              /\ calculateSmartScore([scTask EXCEPT !.deadline = d], scCalls[k].at)
                    < scCalls[k].score

\* C13: the age component lies in [0, 1] for every task, one created after
\* the time of the call included.
C13_AgeInUnitRange ==
    \A k \in 1..Len(scCalls) :
        ~scTask.completed =>
            /\ ageBoost(scTask.createdAt, scCalls[k].at) >= 0
            /\ ageBoost(scTask.createdAt, scCalls[k].at) <= maxAgeHours

\* Scenario A: an incomplete critical task, its deadline and its creation
\* both one hour before the time of the call.
ScenarioA(at) ==
    /\ ~scTask.completed
    /\ scTask.priority = "critical"
    /\ scTask.deadline = at - Hours(1)
    /\ scTask.createdAt = at - Hours(1)

\* C15 as stated: in scenario A the score is 8.0003.
C15_ScenarioA_Stated ==
    \A k \in 1..Len(scCalls) :
        ScenarioA(scCalls[k].at) => scCalls[k].score = 80003

\* C15 as amended: in scenario A the deadline component is 1.0, the priority
\* component 1.0, the age component 1/720, and the score is 8.0028.
C15_ScenarioA ==
    \A k \in 1..Len(scCalls) :
        ScenarioA(scCalls[k].at) =>
            /\ deadlineUrgency(scTask.deadline, scCalls[k].at) = DecayScale
            /\ PRIORITY_WEIGHTS[scTask.priority] = 4
            /\ ageBoost(scTask.createdAt, scCalls[k].at) = 1
            /\ scCalls[k].score = 80028

\* C15 witness: the task of scenario A was scored.
C15_Witness ==
    \E k \in 1..Len(scCalls) : ScenarioA(scCalls[k].at)
\* The cached score of a task of state.tasks is its score at the current time.
ScoreIsCurrent(t) == t.sortScore = Some(calculateSmartScore(t, now))

\* C14: under 'smart' order, with every score current, an incomplete task that
\* has reached the full age boost (30 days old) and whose deadline has passed,
\* so that its score can rise no further, is not shown below an incomplete
\* task of higher priority that was added after it.
C14_OldTaskNotBuried ==
    sortOrder = "smart" =>
        \A i, j \in 1..Len(displayedTasks) :
            LET newer == displayedTasks[i]
                older == displayedTasks[j]
            IN  ~ /\ i < j
                  /\ ~older.completed /\ ~newer.completed
                  /\ ScoreIsCurrent(older) /\ ScoreIsCurrent(newer)
                  /\ differenceInHours(now, older.createdAt) >= maxAgeHours
                  /\ older.deadline <= now
                  /\ newer.createdAt > older.createdAt
                  /\ PRIORITY_WEIGHTS[newer.priority] > PRIORITY_WEIGHTS[older.priority]

\* No task of the input passes all five filters: the input is empty, or the
\* filter matches nothing.
NothingMatches == \A i \in 1..Len(egTasks) : ~SatisfiesAll(egTasks[i], egFilter)

\* C16: on an empty input, and on an input no task of which passes the
\* filter, the call goes through, under every filter and sort order, and what
\* it returns is the empty sequence.
C16_EmptyResult ==
    NothingMatches =>
        IF IsPresent(egResult) THEN Returned = <<>> ELSE ENABLED SortAndFilterCall

\* A call under a search query and a priority filter on a task that passes
\* neither has returned.
C16_Witness ==
    /\ IsPresent(egResult)
    /\ Returned = <<>>
    /\ egTasks # <<>>
    /\ SearchActive(egFilter)
    /\ egFilter.priority = "high"

\* The task handed to the scorer has a deadline or a createdAt that does not
\* parse.
HasInvalidTimestamp == scTask.deadline = InvalidDate \/ scTask.createdAt = InvalidDate

\* C17: a call of the scorer on a task whose deadline or createdAt does not
\* parse fails instead of returning: no such call ever hands a score back.
C17_InvalidTimestampRejected == HasInvalidTimestamp => scCalls = <<>>

\* q occurs in s as a run of consecutive characters.
IsSubstring(q, s) ==
    \E k \in 0..(Len(s) - Len(q)) : SubSeq(s, k + 1, k + Len(q)) = q

\* The task is among those returned.
IsReturned(t) == \E i \in 1..Len(Returned) : Returned[i] = t

\* The trimmed, lower-cased query is a substring of the lower-cased title, of
\* the lower-cased description, or of a lower-cased tag of the task.
QueryFound(t, f) ==
    LET q == toLowerCase(trim(f.searchQuery))
    IN  \/ IsSubstring(q, toLowerCase(t.title))
        \/ IsSubstring(q, toLowerCase(t.description))
        \/ \E i \in 1..Len(t.tags) : IsSubstring(q, toLowerCase(t.tags[i]))

C19_CreatedAtImmutable ==
    [][\A i \in 1..Len(storage), j \in 1..Len(storage') :
          storage[i].id = storage'[j].id
              => storage'[j].createdAt = storage[i].createdAt]_vars

EmailRegistered(email) ==
    \E i \in 1..Len(users) : toLowerCase(users[i].email) = toLowerCase(email)

\* C21: a register call with an email that is already registered, in any
\* case of its letters, is rejected and leaves the stored users and the
\* stored current-user id as they were; and no two stored users ever have the
\* same lower-cased email.
C21_UniqueEmails ==
    /\ [](\A i, j \in 1..Len(users) :
            i # j => toLowerCase(users[i].email) # toLowerCase(users[j].email))
    /\ [][\A p \in RegisterPayloads :
            (EmailRegistered(p.email) /\ RegisterUser(p))
                => /\ IsPresent(auth'.error)
                   /\ users' = users
                   /\ currentUserId' = currentUserId]_vars

\* A register call has been rejected for its email while two users with
\* different emails are stored.
C21_Witness ==
    /\ auth.error = Some("An account with this email already exists")
    /\ Len(users) = 2

\* C22: the user record in state.auth.currentUser never carries a
\* passwordHash.
C22_NoHashInState ==
    IsPresent(auth.currentUser) => "passwordHash" \notin DOMAIN auth.currentUser[1]

\* C23: an updateTask call changes the stored task with the id it names and
\* no other: that task keeps its id whatever id the payload carries, takes
\* the other fields of the payload and has its updatedAt set to the time of
\* the call; when no stored task has the id the call is rejected and storage
\* stays as it was.
C23_UpdateFrame ==
    [][\A id \in 1..MaxIds, u \in ServiceUpdates :
          UpdateTask(id, u) =>
              IF \E i \in 1..Len(storage) : storage[i].id = id
              THEN /\ Len(storage') = Len(storage)
                   /\ \A i \in 1..Len(storage) :
                         IF storage[i].id = id
                         THEN /\ storage'[i].id = id
                              /\ storage'[i].updatedAt = now
                              /\ \A k \in DOMAIN storage[i] \ {"id", "updatedAt"} :
                                    storage'[i][k] = IF k \in DOMAIN u THEN u[k]
                                                     ELSE storage[i][k]
                         ELSE storage'[i] = storage[i]
              ELSE storage' = storage /\ IsPresent(error')]_vars

\* Of two stored tasks, one was updated after the clock advanced, by a payload
\* that carried a title, and the other is as it was created.
C23_Witness ==
    /\ Len(storage) = 2
    /\ \E i, j \in 1..Len(storage) :
          /\ storage[i].title = <<"B">> /\ storage[i].updatedAt > storage[i].createdAt
          /\ storage[i].id = 1
          /\ storage[j].updatedAt = storage[j].createdAt

\* Storage holds the change the call made: the task it created or updated, as
\* the service returned it, or no task with the id it deleted.
ChangeIsStored(call, stored) ==
    IF call.op = "delete"
    THEN \A k \in 1..Len(stored) : stored[k].id # call.id
    ELSE \E k \in 1..Len(stored) : stored[k] = call.out.value

\* C24: an add, update, delete or toggle thunk ends fulfilled only when
\* storage holds the change it made.
C24_FulfilledMeansWritten ==
    [][\A i \in 1..Len(calls) :
          (CallSettle(i) /\ calls[i].out.ok) => ChangeIsStored(calls[i], storage)]_vars

\* C25: isDueSoon(task, N) is true exactly when the task is not completed and
\* its deadline is at or after the time of the call and at most N hours after
\* it; no task is overdue and due soon at once, and a completed task is
\* neither.
C25_DueSoonExact ==
    \A k \in 1..Len(scCalls) :
        LET call == scCalls[k]
        IN  /\ call.dueSoon <=> /\ ~scTask.completed
                                /\ call.at <= scTask.deadline
                                /\ scTask.deadline <= call.at + Hours(call.withinHours)
            /\ ~(call.overdue /\ call.dueSoon)
            /\ scTask.completed => (~call.overdue /\ ~call.dueSoon)

\* C26: a step that ends the session (isAuthenticated true before it, false
\* after it) leaves storage such that restoreSession yields no user.
C26_LogoutEndsSession ==
    [][(auth.isAuthenticated /\ ~auth'.isAuthenticated)
          => getCurrentUser(users', currentUserId') = Absent]_vars

\* C27: once no call is in flight, storage holds every task that was created
\* and not deleted (the tasks of state.tasks, which addTask.fulfilled pushes
\* and deleteTask.fulfilled removes), with every update that was applied to
\* it, and holds no task that was deleted.
C27_NoLostUpdates ==
    calls = <<>> =>
        /\ \A i \in 1..Len(tasks) :
              \E k \in 1..Len(storage) :
                  /\ storage[k].id = tasks[i].id
                  /\ tasks[i].priority = "medium" => storage[k].priority = "medium"
        /\ \A k \in 1..Len(storage) :
              \E i \in 1..Len(tasks) : tasks[i].id = storage[k].id

\* The completed flag of the task with this id in an array of tasks.
CompletedIn(arr, taskId) == arr[findIndex(arr, taskId)].completed

\* C29: each toggle flips the flag once: when the write of a toggle call has
\* settled, the stored task's completed is the opposite of what it was, and
\* when a toggle call that is the only call in flight ends fulfilled, the
\* completed of the task in state.tasks is the opposite of what it was.
C29_EachToggleFlips ==
    [][/\ \A i \in 1..Len(calls) :
             (/\ calls[i].op = "toggle" /\ calls[i].pc = "write"
              /\ Len(calls') = Len(calls) /\ calls'[i].pc = "settle"
              /\ findIndex(storage, calls[i].id) # 0)
                => CompletedIn(storage', calls[i].id) = ~CompletedIn(storage, calls[i].id)
       /\ (/\ Len(calls) = 1 /\ calls' = <<>>
           /\ calls[1].op = "toggle" /\ calls[1].pc = "settle"
           /\ findIndex(tasks, calls[1].id) # 0
           /\ calls[1].out.ok)
             => CompletedIn(tasks', calls[1].id) = ~CompletedIn(tasks, calls[1].id)]_vars

\* C28: while nobody is signed in, state.tasks is empty: a task thunk that was
\* in flight at sign-out does not bring tasks back when it fulfils.
C28_SignedOutNoTasks == ~auth.isAuthenticated => tasks = <<>>

\* C30: in every state of the auth slice, isAuthenticated is true exactly when
\* currentUser is not null.
C30_AuthenticatedIffUser == auth.isAuthenticated <=> IsPresent(auth.currentUser)

\* A signed-in user whose profile was updated, after a rejected login.
C30_Witness ==
    /\ auth.isAuthenticated
    /\ IsPresent(auth.currentUser)
    /\ auth.currentUser[1].name = <<"b">>
    /\ IsPresent(auth.error)

====
